---- MODULE Spec2Model ----
(***************************************************************************)
(* Model of stan_xy.py: the vortex counter vorticity_calc and the          *)
(* temperature sweep that calls the Stan sampler, carries the last draw of *)
(* every chain over to the next temperature and appends one CSV row per    *)
(* temperature to energy_data.csv.                                         *)
(*                                                                         *)
(* Numbers.  Spin components are fixed-point numbers with Scale units to   *)
(* 1.0, so a dot or cross product of two spins has Scale*Scale units to    *)
(* 1.0.  Angles are integers in microradians.  NaN is the value numpy's    *)
(* arccos returns outside [-1, 1]; it propagates through * and + and every *)
(* comparison with it is false.  Temperatures are integers in tenths.      *)
(* R-hat values are integers in hundredths.                                *)
(***************************************************************************)
EXTENDS Integers, Sequences, FiniteSets, TLC

VARIABLES
    pc,           \* position of the script
    spin_array,   \* argument of the vorticity_calc call under study
    vorticity,    \* value vorticity_calc returned for spin_array
    stan,         \* sm: how the compiled sampler answers at each temperature
    fileExists,   \* os.path.exists(filename)
    file,         \* the lines of energy_data.csv
    i,            \* loop variable of the sweep
    init,         \* initial state handed to the next sampler call
    request,      \* arguments of the sm.sampling call in flight
    fit,          \* result of the last sm.sampling call that returned
    row,          \* statistics computed for the current temperature
    sampled,      \* history: temperatures of this run's sm.sampling calls
    startFile,    \* history: the file's lines after this run's start-up
    runs,         \* number of times the script has been started
    faults        \* number of sampler failures and crashes so far

----------------------------------------------------------------------------
(* Bounds *)

MaxDim == 3

\* draws each chain keeps of one sm.sampling call
NumDraws == 2

\* times the script is run against the same file
MaxRuns == 2

\* sampler failures and crashes over all runs
MaxFaults == 1

----------------------------------------------------------------------------
(* Fixed-point arithmetic with NaN *)

Scale == 1000

One == Scale * Scale

\* a value no sum of four angles can take
NaN == 0 - (1000 * One)

HalfPi == 1570796

Pi == 2 * HalfPi

FMul(a, b) == IF a = NaN \/ b = NaN THEN NaN ELSE a * b

FAdd(a, b) == IF a = NaN \/ b = NaN THEN NaN ELSE a + b

FGt(a, b) == a # NaN /\ b # NaN /\ a > b

Abs(a) == IF a < 0 THEN 0 - a ELSE a

\* np.sign
Sign(a) == IF a = NaN THEN NaN ELSE IF a > 0 THEN 1 ELSE IF a < 0 THEN 0 - 1 ELSE 0

\* np.arccos on the dot products the model's spins produce, in microradians
ArccosTable ==
    [d \in {0, 342000, 940000, One} |->
        CASE d = One    -> 0
          [] d = 940000 -> 348166
          [] d = 342000 -> 1221752
          [] d = 0      -> HalfPi]

\* Outside [-1, 1] numpy returns nan: the source does not clamp its argument.
Arccos(d) ==
    IF d > One \/ d < 0 - One THEN NaN
    ELSE IF d >= 0 THEN ArccosTable[d]
    ELSE Pi - ArccosTable[0 - d]

----------------------------------------------------------------------------
(* Spins and lattices *)

Up == <<0, Scale>>

\* The four axis directions are exact unit vectors.  Rounded is the direction
\* of 20 degrees held to three decimals: its norm rounds to just above 1, as
\* cos(t)^2 + sin(t)^2 does in double precision for some t.
Rounded == <<940, 342>>

Dirs == {<<Scale, 0>>, Up, <<0 - Scale, 0>>, <<0, 0 - Scale>>, Rounded}

Sites(dx, dy) == (0 .. dx - 1) \X (0 .. dy - 1)

Lattice(dx, dy, at) == [dim_x |-> dx, dim_y |-> dy, at |-> at]

Uniform(dx, dy, d) == Lattice(dx, dy, [p \in Sites(dx, dy) |-> d])

\* A uniform background b with a 2x2 patch q of arbitrary spins at origin o.
Patched(dx, dy, b, o, q) ==
    Lattice(dx, dy,
        [p \in Sites(dx, dy) |->
            LET rx == (p[1] - o[1]) % dx
                ry == (p[2] - o[2]) % dy
            IN  IF rx < 2 /\ ry < 2 THEN q[<<rx, ry>>] ELSE b])

\* the patch inside the array, and the patch across both periodic boundaries
Origins(dx, dy) == {<<0, 0>>, <<dx - 1, dy - 1>>}

IsInput(a) ==
    \E dx \in 2 .. MaxDim, dy \in 2 .. MaxDim :
        \E b \in Dirs, o \in Origins(dx, dy), q \in [Sites(2, 2) -> Dirs] :
            a = Patched(dx, dy, b, o, q)

----------------------------------------------------------------------------
(* vorticity_calc *)

\* The shifts of the four arrays of the list rolled: the array itself and
\* np.roll by 1 along axis 0, along axes (0, 1) and along axis 1.
Shifts == <<<<0, 0>>, <<1, 0>>, <<1, 1>>, <<0, 1>>>>

\* np.roll(a, 1, axis): the element at index k moves to index k + 1, cyclically
Roll(a, s, p) == a.at[<<(p[1] - s[1]) % a.dim_x, (p[2] - s[2]) % a.dim_y>>]

\* element p of rolled[i]
rolled(a, k, p) == Roll(a, Shifts[k], p)

\* rolled[k-1] of the source, whose index -1 is the last element
Before(k) == IF k = 1 THEN Len(Shifts) ELSE k - 1

\* np.sum(np.multiply(u, v), axis=-1)
Dot(u, v) == u[1] * v[1] + u[2] * v[2]

\* np.cross(u, v, axis=-1) of two planar vectors
Cross(u, v) == u[1] * v[2] - u[2] * v[1]

dotted(a, k, p) == Dot(rolled(a, Before(k), p), rolled(a, k, p))

crossed(a, k, p) == Cross(rolled(a, Before(k), p), rolled(a, k, p))

\* np.arccos(dot) * np.sign(cross)
angles(a, k, p) ==
    LET dot == dotted(a, k, p)
        cross == crossed(a, k, p)
    IN  FMul(Arccos(dot), Sign(cross))

\* np.sum(angles, axis=0)
around_angle(a, p) ==
    LET a1 == angles(a, 1, p)
        a2 == angles(a, 2, p)
        a3 == angles(a, 3, p)
        a4 == angles(a, 4, p)
    IN  FAdd(FAdd(a1, a2), FAdd(a3, a4))

\* the literal 1 of "around_angle>1", in microradians
Radian == 1000000

\* faulty variant: the threshold pi instead of 1
vortexAbovePi(a, p) == IF FGt(around_angle(a, p), Pi) THEN 1 ELSE 0

\* faulty variant: the magnitude of the angle sum compared, vortices of both senses
vortexEitherSense(a, p) ==
    IF around_angle(a, p) # NaN /\ Abs(around_angle(a, p)) > Radian THEN 1 ELSE 0

vortex(a, p) == IF FGt(around_angle(a, p), Radian) THEN 1 ELSE 0

\* np.sum(vortex, axis=(-1, -2)) over the first n sites in row-major order
RECURSIVE CountVortices(_, _)
CountVortices(a, n) ==
    IF n = 0 THEN 0
    ELSE vortex(a, <<(n - 1) \div a.dim_y, (n - 1) % a.dim_y>>)
         + CountVortices(a, n - 1)

vorticity_calc(a) == CountVortices(a, a.dim_x * a.dim_y)

---------------------------------------------------------------------------------------------------------------------------------------------------
(* Basic parameters of the script *)

chains == 4

vorticity_samples == 1000

iterations == 5000

dim_x == 4

dim_y == 4

\* range(20)
NumTemps == 20

\* faulty variant: the schedule starts at 0.0
TempFromZero(k) == k

\* temp = (i + 1.) * 0.1, in tenths
Temp(k) == k + 1

\* control = dict(adapt_delta=0.7, max_treedepth=15), adapt_delta in tenths
control == [adapt_delta |-> 7, max_treedepth |-> 15]

Columns ==
    <<"temp", "dim_x", "dim_y", "energy", "energy_var", "c",
      "vortex_density", "rhat", "n_eff">>

\* the line the start-up code writes into a new file
HeaderLine == [header |-> Columns]

IsHeader(line) == "header" \in DOMAIN line

\* unit_vect_array: the vector (0, 1) at every site
unit_vect_array == Uniform(dim_x, dim_y, Up)

\* init = [dict(spin=unit_vect_array)] * chains
FirstInit == [c \in 1 .. chains |-> [spin |-> unit_vect_array]]

----------------------------------------------------------------------------
(* The sampler, an external collaborator.  What it returns at a temperature *)
(* is fixed by stan: aligned draws below stan.vortex_from, draws with       *)
(* vortices from there on, and a run that did not converge at               *)
(* stan.unconverged_at.                                                     *)

Winding ==
    [q \in Sites(2, 2) |->
        CASE q = <<0, 0>> -> <<Scale, 0>>
          [] q = <<1, 0>> -> <<0, 0 - Scale>>
          [] q = <<1, 1>> -> <<0 - Scale, 0>>
          [] q = <<0, 1>> -> Up]

AxisDirs == <<<<Scale, 0>>, Up, <<0 - Scale, 0>>, <<0, 0 - Scale>>>>

Samplers ==
    [vortex_from : {1, 10, NumTemps + 1}, unconverged_at : {0, 2}]

\* draw d of chain c at temperature t
Draw(s, t, d, c) ==
    IF t < s.vortex_from THEN unit_vect_array
    ELSE IF d = NumDraws
         THEN Patched(dim_x, dim_y, AxisDirs[((c + t) % 4) + 1], <<c - 1, 0>>, Winding)
         ELSE Patched(dim_x, dim_y, Up, <<0, c - 1>>, Winding)

SampleDraws ==
    { Draw(s, t, d, c) : s \in Samplers, t \in 1 .. NumTemps,
                         d \in 1 .. NumDraws, c \in 1 .. chains }

\* energy of draw d of chain c, in hundredths
Energy(s, t, d, c) ==
    IF t < s.vortex_from THEN 0 - (200 * dim_x * dim_y)
    ELSE 0 - (200 * dim_x * dim_y) + 100 * (d + c + t)

\* the fit object sm.sampling returns
SamplerResult(s, req) ==
    [spin |-> [d \in 1 .. NumDraws |-> [c \in 1 .. req.chains |->
                  Draw(s, req.data.temp, d, c)]],
     energy |-> [d \in 1 .. NumDraws |-> [c \in 1 .. req.chains |->
                  Energy(s, req.data.temp, d, c)]],
     rhat |-> IF req.data.temp = s.unconverged_at THEN 120 ELSE 100,
     n_eff |-> IF req.data.temp = s.unconverged_at THEN 40 ELSE 4000]

\* fit.extract(pars, permuted=True)[pars]: the draws of all chains in one
\* sequence.  ExtractLen is its length and ExtractPermuted its element k.
ExtractLen(series) == IF series = <<>> THEN 0 ELSE Len(series) * Len(series[1])

ExtractPermuted(series, k) ==
    series[((k - 1) \div Len(series[1])) + 1][((k - 1) % Len(series[1])) + 1]

\* fit.extract(pars="spin", permuted=False)["spin"][-1]: the last draw, by chain
LastDraw(f) == f.spin[Len(f.spin)]

----------------------------------------------------------------------------
(* Statistics of one temperature *)

Min(m, n) == IF m < n THEN m ELSE n

\* the sum of the first n values of the series energy, each divided by N
RECURSIVE SumEnergy(_, _, _)
SumEnergy(f, n, N) ==
    IF n = 0 THEN 0
    ELSE (ExtractPermuted(f.energy, n) \div N) + SumEnergy(f, n - 1, N)

\* the sum of (x / N - m)^2 over the first n values x of the series energy
RECURSIVE SumSquares(_, _, _, _)
SumSquares(f, n, N, m) ==
    IF n = 0 THEN 0
    ELSE LET x == ExtractPermuted(f.energy, n) \div N
         IN  (x - m) * (x - m) + SumSquares(f, n - 1, N, m)

\* statistics.mean of energy / N, the quotient rounded down
Mean(f, N) == SumEnergy(f, ExtractLen(f.energy), N) \div ExtractLen(f.energy)

\* statistics.variance of energy / N: sample variance, N-1 denominator
Variance(f, N) ==
    SumSquares(f, ExtractLen(f.energy), N, Mean(f, N))
        \div (ExtractLen(f.energy) - 1)

\* vorticity_calc is a pure function: its values on the draws the sampler can
\* return are computed once and looked up by the sweep.
VorticityOfDraws == { <<a, vorticity_calc(a)>> : a \in SampleDraws }

Vorticity(a) == (CHOOSE e \in VorticityOfDraws : e[1] = a)[2]

\* the sum of vorticity_calc(x) over the first n spin draws x
RECURSIVE SumVorticity(_, _)
SumVorticity(f, n) ==
    IF n = 0 THEN 0
    ELSE Vorticity(ExtractPermuted(f.spin, n)) + SumVorticity(f, n - 1)

\* the nine values of the CSV row, computed from fit
Statistics(f, temp) ==
    LET N == dim_x * dim_y
        \* len(...["spin"][:vorticity_samples])
        n == Min(ExtractLen(f.spin), vorticity_samples)
    IN  [temp |-> temp, dim_x |-> dim_x, dim_y |-> dim_y,
         \* energy_per_spin is energy / N in the Stan model
         energy |-> Mean(f, N),
         energy_var |-> Variance(f, N),
         c |-> ((Variance(f, 1) * 100) \div N) \div (temp * temp),
         \* in thousandths
         vortex_density |-> (SumVorticity(f, n) * 1000) \div (n * N),
         rhat |-> f.rhat, n_eff |-> f.n_eff]

\* faulty variant: the first draw of every chain instead of the last
WarmStartFirstDraw(f) == [c \in 1 .. Len(f.spin[1]) |-> [spin |-> f.spin[1][c]]]

\* init = [dict(spin=block) for block in ...["spin"][-1]]
WarmStart(f) == [c \in 1 .. Len(LastDraw(f)) |-> [spin |-> LastDraw(f)[c]]]

----------------------------------------------------------------------------
(* The script *)

NoArray == Lattice(0, 0, <<>>)

NoRequest == [data |-> [dim_x |-> 0, dim_y |-> 0, temp |-> 0], chains |-> 0,
              iter |-> 0, init |-> <<>>, control |-> control]

NoFit == [spin |-> <<>>, energy |-> <<>>, rhat |-> 0, n_eff |-> 0]

NoRow == [temp |-> 0]

vars == <<pc, spin_array, vorticity, stan, fileExists, file, i, init, request,
          fit, row, sampled, startFile, runs, faults>>

vortexVars == <<spin_array, vorticity>>

Terminated == pc \in {"done", "failed", "crashed"}

Init ==
    /\ pc = "start"
    /\ spin_array = NoArray
    /\ vorticity = 0 - 1
    /\ stan \in Samplers
    /\ fileExists = FALSE
    /\ file = <<>>
    /\ i = 0
    /\ init = <<>>
    /\ request = NoRequest
    /\ fit = NoFit
    /\ row = NoRow
    /\ sampled = <<>>
    /\ startFile = <<>>
    /\ runs = 0
    /\ faults = 0

\* faulty variant: the file is opened with 'w' whether it exists or not
HeaderInitTruncating(exists, lines) == <<HeaderLine>>

\* Lines 13-17: an existing file is left alone, a new one gets the header
HeaderInit(exists, lines) == IF exists THEN lines ELSE <<HeaderLine>>

\* faulty variant: the row stays in a buffer that is never flushed
AppendLineUnflushed(lines, line) == lines

\* Lines 102-109: open(filename, 'a'), one write, close
AppendLine(lines, line) == Append(lines, line)

\* faulty variant: the exception is swallowed and the call repeated
AfterFailureRetry == "loop"

\* an exception of sm.sampling is not caught: the script ends
AfterFailure == "failed"

\* Lines 1-28, run from the top: the header is written only into a file that
\* does not exist, then the first initial state is built.
Startup ==
    /\ pc = "start" \/ Terminated
    /\ runs < MaxRuns
    /\ runs' = runs + 1
    /\ fileExists' = TRUE
    /\ file' = HeaderInit(fileExists, file)
    /\ startFile' = file'
    /\ init' = FirstInit
    /\ i' = 0
    /\ request' = NoRequest
    /\ fit' = NoFit
    /\ row' = NoRow
    /\ sampled' = <<>>
    /\ pc' = "loop"
    /\ UNCHANGED <<vortexVars, stan, faults>>

\* Lines 59-75: the call of sm.sampling with the current init
InvokeSampler ==
    /\ pc = "loop"
    /\ request' = [data |-> [dim_x |-> dim_x, dim_y |-> dim_y, temp |-> Temp(i)],
                   chains |-> chains, iter |-> iterations, init |-> init,
                   control |-> control]
    /\ sampled' = Append(sampled, Temp(i))
    /\ pc' = "sampling"
    /\ UNCHANGED <<vortexVars, stan, fileExists, file, i, init, fit, row,
                   startFile, runs, faults>>

\* sm.sampling returns
SamplerReturns ==
    /\ pc = "sampling"
    /\ fit' = SamplerResult(stan, request)
    /\ request' = NoRequest
    /\ pc' = "aggregate"
    /\ UNCHANGED <<vortexVars, stan, fileExists, file, i, init, row, sampled,
                   startFile, runs, faults>>

\* sm.sampling raises: nothing catches the exception and the script ends
SamplerFails ==
    /\ pc = "sampling"
    /\ faults < MaxFaults
    /\ faults' = faults + 1
    /\ request' = NoRequest
    /\ init' = <<>>
    /\ fit' = NoFit
    /\ row' = NoRow
    /\ pc' = AfterFailure
    /\ UNCHANGED <<vortexVars, stan, fileExists, file, i, sampled, startFile, runs>>

\* Lines 77-99: the statistics of this temperature and the next initial state
Aggregate ==
    /\ pc = "aggregate"
    /\ row' = Statistics(fit, Temp(i))
    /\ init' = WarmStart(fit)
    /\ pc' = "save"
    /\ UNCHANGED <<vortexVars, stan, fileExists, file, i, request, fit, sampled,
                   startFile, runs, faults>>

\* Lines 101-109: the row is appended and the file closed; the loop goes on
AppendRow ==
    /\ pc = "save"
    /\ file' = AppendLine(file, row)
    /\ i' = i + 1
    /\ row' = NoRow
    /\ pc' = IF i + 1 < NumTemps THEN "loop" ELSE "done"
    /\ UNCHANGED <<vortexVars, stan, fileExists, init, request, fit, sampled,
                   startFile, runs, faults>>

\* The process is killed during the sweep: its memory is lost, the file stays.
Crash ==
    /\ pc \in {"loop", "sampling", "aggregate", "save"}
    /\ faults < MaxFaults
    /\ faults' = faults + 1
    /\ request' = NoRequest
    /\ init' = <<>>
    /\ fit' = NoFit
    /\ row' = NoRow
    /\ pc' = "crashed"
    /\ UNCHANGED <<vortexVars, stan, fileExists, file, i, sampled, startFile, runs>>

Next ==
    \/ Startup
    \/ InvokeSampler
    \/ SamplerReturns
    \/ SamplerFails
    \/ Aggregate
    \/ AppendRow
    \/ Crash

Spec == Init /\ [][Next]_vars

----------------------------------------------------------------------------
(* The specification of vorticity_calc on its own *)

InitVortex ==
    /\ pc = "call"
    /\ IsInput(spin_array)
    /\ vorticity = 0 - 1
    /\ stan = [vortex_from |-> 1, unconverged_at |-> 0]
    /\ fileExists = FALSE
    /\ file = <<>>
    /\ i = 0
    /\ init = <<>>
    /\ request = NoRequest
    /\ fit = NoFit
    /\ row = NoRow
    /\ sampled = <<>>
    /\ startFile = <<>>
    /\ runs = 0
    /\ faults = 0

CallVorticityCalc ==
    /\ pc = "call"
    /\ vorticity' = vorticity_calc(spin_array)
    /\ pc' = "returned"
    /\ UNCHANGED <<spin_array, stan, fileExists, file, i, init, request, fit, row,
                   sampled, startFile, runs, faults>>

NextVortex == CallVorticityCalc

SpecVortex == InitVortex /\ [][NextVortex]_vars

----------------------------------------------------------------------------
(* Properties of vorticity_calc, checked under SpecVortex *)

Plaquettes(a) == DOMAIN a.at

Returned == pc = "returned"

QuarterTurns(v) ==
    CASE v = <<Scale, 0>>     -> 0
      [] v = <<0, Scale>>     -> 1
      [] v = <<0 - Scale, 0>> -> 2
      [] v = <<0, 0 - Scale>> -> 3
      [] OTHER                -> 0 - 1

\* the four sites of the 2x2 lattice in the order of a walk around the square
Loop2x2 == <<<<0, 0>>, <<1, 0>>, <<1, 1>>, <<0, 1>>>>

\* a 2x2 lattice whose spins are at 0, pi/2, pi, 3pi/2 and turn by a quarter
\* turn, always in the same sense, from each site of the walk to the next
IsWinding2x2(a) ==
    /\ a.dim_x = 2
    /\ a.dim_y = 2
    /\ \A p \in Plaquettes(a) : QuarterTurns(a.at[p]) >= 0
    /\ \E sense \in {1, 3} : \A k \in 1 .. 4 :
           QuarterTurns(a.at[Loop2x2[(k % 4) + 1]])
               = (QuarterTurns(a.at[Loop2x2[k]]) + sense) % 4

\* C3 as stated: the 2x2 configuration that winds once yields exactly 1.
C3_SingleVortexIsOne == (Returned /\ IsWinding2x2(spin_array)) => vorticity = 1

\* C3 amended: the 2x2 configuration that winds once yields exactly 2: of the
\* four plaquettes of the 2x2 torus, which all visit the same four sites, two
\* walk them in the winding sense (sum 2 pi) and two in the opposite sense
\* (sum -2 pi).
C3_SingleVortexIsTwo ==
    (Returned /\ IsWinding2x2(spin_array)) =>
        /\ vorticity = 2
        /\ Cardinality({p \in Plaquettes(spin_array) :
                           around_angle(spin_array, p) = 2 * Pi}) = 2
        /\ Cardinality({p \in Plaquettes(spin_array) :
                           around_angle(spin_array, p) = 0 - (2 * Pi)}) = 2

C3_Witness == Returned /\ IsWinding2x2(spin_array) /\ vorticity > 0

IsUniform(a) == \E d \in Dirs : \A p \in Plaquettes(a) : a.at[p] = d

\* C9 as stated: if every spin of a lattice points in the same direction,
\* every plaquette's angle sum is 0 and vorticity_calc returns 0.
C9_UniformIsVortexFree ==
    (Returned /\ IsUniform(spin_array)) =>
        /\ vorticity = 0
        /\ \A p \in Plaquettes(spin_array) : around_angle(spin_array, p) = 0

\* C10 as stated: the signed angle of an edge always has the magnitude
\* arccos(dot), so an edge whose cross product is 0 contributes a zero angle
\* only when its two spins are parallel.
C10_EdgeAngleMagnitude ==
    Returned =>
        \A p \in Plaquettes(spin_array) : \A k \in 1 .. 4 :
            Arccos(dotted(spin_array, k, p)) # NaN =>
                /\ Abs(angles(spin_array, k, p)) = Arccos(dotted(spin_array, k, p))
                /\ (crossed(spin_array, k, p) = 0 /\ angles(spin_array, k, p) = 0)
                       => dotted(spin_array, k, p) = One

----------------------------------------------------------------------------
(* Properties of the sweep, checked under Spec *)

IsPrefix(s, t) == Len(s) <= Len(t) /\ SubSeq(t, 1, Len(s)) = s

\* the rows this run has appended
ThisRun == SubSeq(file, Len(startFile) + 1, Len(file))

TempsOf(rows) == [k \in 1 .. Len(rows) |-> rows[k].temp]

\* 0.1, 0.2, ... in tenths
Schedule(n) == [k \in 1 .. n |-> k]

InSweep == pc \in {"loop", "sampling", "aggregate", "save"}

\* C1: the initial state of every sampler call has one entry per chain; in
\* the first call every entry is the aligned configuration, in every later
\* call entry c is the last draw of chain c of the previous call's result.
C1_WarmStartContinuity ==
    pc = "sampling" =>
        /\ Len(request.init) = chains
        /\ \A c \in 1 .. chains :
               request.init[c].spin =
                   IF Len(sampled) = 1
                   THEN [dim_x |-> dim_x, dim_y |-> dim_y,
                         at |-> [p \in Sites(dim_x, dim_y) |-> <<0, Scale>>]]
                   ELSE fit.spin[Len(fit.spin)][c]

\* a second or later call whose previous result ends, chain by chain, in
\* different configurations that differ from the first draw and from the
\* aligned one
C1_Witness ==
    /\ pc = "sampling"
    /\ Len(sampled) > 1
    /\ \A c, e \in 1 .. chains :
           c # e => fit.spin[Len(fit.spin)][c] # fit.spin[Len(fit.spin)][e]
    /\ \A c \in 1 .. chains :
           /\ fit.spin[Len(fit.spin)][c] # fit.spin[1][c]
           /\ fit.spin[Len(fit.spin)][c] # unit_vect_array

HeaderOnlyFirst ==
    fileExists =>
        /\ Len(file) >= 1
        /\ IsHeader(file[1])
        /\ \A k \in 2 .. Len(file) : ~IsHeader(file[k])

\* C4: the header is written when and only when the file does not exist at
\* start-up; an existing file is never truncated and never gets a second
\* header, so the file always holds exactly one header, as its first line.
C4_IdempotentHeader ==
    /\ [](HeaderOnlyFirst)
    /\ [][/\ IsPrefix(file, file')
          /\ (~fileExists /\ fileExists') => file' = <<HeaderLine>>
          /\ (fileExists /\ runs' > runs) => file' = file]_vars

\* the second run has completed against the file the first run left complete
C4_Witness == runs = 2 /\ pc = "done" /\ Len(file) = 1 + 2 * NumTemps

\* C5: when the sampler is invoked for temperature k the file holds what it
\* held at start-up followed by the rows of temperatures 1 .. k-1, in that
\* order; at any point of the sweep, and after a crash at any point, it holds
\* the header and one row for each completed temperature, and at most the row
\* of the temperature in flight is missing.
C5_RowsBeforeNextCall ==
    (InSweep \/ pc = "crashed") =>
        /\ IsPrefix(startFile, file)
        /\ IsHeader(file[1])
        /\ TempsOf(ThisRun) = Schedule(i)
        /\ Len(sampled) - Len(ThisRun) \in {0, 1}
        /\ pc = "sampling" => TempsOf(ThisRun) = Schedule(request.data.temp - 1)

\* a crash while the call for the third or a later temperature is in flight
C5_Witness ==
    /\ pc = "crashed"
    /\ i >= 2
    /\ Len(sampled) = i + 1
    /\ Len(ThisRun) = i

\* the number of steps a run still has to take
StepsLeft ==
    4 * (20 - i) - (CASE pc = "sampling"  -> 1
                      [] pc = "aggregate" -> 2
                      [] pc = "save"      -> 3
                      [] OTHER            -> 0)

\* C6: the sampler is called once per temperature, for 0.1, 0.2, ..., 2.0 in
\* ascending order, one call at a time; every step of a run whose sampler
\* calls return brings its end nearer, so the run ends; and a run that ends
\* normally has appended exactly 20 rows, whose temperatures are that schedule.
C6_ScheduleAndTermination ==
    /\ [](/\ \A k \in 1 .. Len(sampled) : sampled[k] = k
          /\ Len(sampled) <= 20
          /\ (pc = "sampling") <=> (request # NoRequest)
          /\ pc = "sampling" => request.data.temp = sampled[Len(sampled)]
          /\ InSweep => StepsLeft > 0
          /\ pc = "done" =>
                 /\ StepsLeft = 0
                 /\ Len(sampled) = 20
                 /\ Len(ThisRun) = 20
                 /\ TempsOf(ThisRun) = Schedule(20))
    /\ [][InSweep => (pc' \in {"failed", "crashed"} \/ StepsLeft' < StepsLeft)]_vars

C6_Witness == pc = "done" /\ Len(ThisRun) = 20

\* C7 as stated: a row whose r_hat is above 1.1 is appended and carries an
\* explicit warning flag, a column besides the nine measured ones.
C7_ConvergenceWarning ==
    \A k \in 1 .. Len(file) :
        (~IsHeader(file[k]) /\ file[k].rhat > 100 + 10) =>
            \E col \in DOMAIN file[k] : col \notin {Columns[n] : n \in 1 .. Len(Columns)}

\* C8: when a sampler call fails the script ends at once: the call is not
\* repeated, no later call is made, no row is appended, and the file keeps
\* the header and the rows of the earlier temperatures.
C8_SamplerFailureIsFatal ==
    /\ [](pc = "failed" =>
            /\ sampled = Schedule(i + 1)
            /\ TempsOf(ThisRun) = Schedule(i)
            /\ IsPrefix(startFile, file))
    /\ [][/\ (pc = "sampling" /\ faults' > faults /\ pc' # "crashed") =>
                 (pc' = "failed" /\ file' = file /\ sampled' = sampled /\ i' = i)
          /\ pc = "failed" =>
                 (file' = file /\ pc' # "sampling" /\ sampled' = <<>>)]_vars

\* the call for the third or a later temperature has failed
C8_Witness == pc = "failed" /\ i >= 2 /\ Len(ThisRun) = i

====
